---- MODULE Spec2Model ----
(***************************************************************************)
(* Model of organization/organize-guitar-tabs-format.py: the rebuild of a  *)
(* guitar tab into a metadata header, deduplicated numbered sections and   *)
(* a Flow token sequence.                                                  *)
(*                                                                         *)
(* Representation.  A Python str without newlines is a TLA+ string, and    *)
(* the character operations of the source (strip, lower, startswith, the   *)
(* regular expressions) are computed character by character.  A text that  *)
(* may hold newlines is represented by the sequence of its lines, that is  *)
(* by text.split("\n"), which is never empty: the empty text is <<"">>.    *)
(* A Python list of lines is a sequence of strings, possibly empty.        *)
(***************************************************************************)
EXTENDS Integers, Sequences, FiniteSets, TLC

VARIABLES
    pc,            \* position of the run: which step comes next
    tab,           \* argument tab of rebuild_formatted_tab, as its lines
    title,         \* local title
    artist,        \* local artist
    meta,          \* local meta: field name -> value
    body,          \* local body (a text)
    sections,      \* local sections: sequence of [header, lines]
    leading_lines, \* local leading_lines
    headers_found, \* local headers_found
    next_section,  \* index in sections of the entry the dedup loop handles next
    type_order,    \* keys of type_stats in insertion order
    type_stats,    \* local type_stats: type name -> [unique, prefix, count]
    unique_order,  \* local unique_order
    occurrences,   \* local occurrences
    rebuilt,       \* value returned by rebuild_formatted_tab(tab)
    rebuilt_again, \* value returned by rebuild_formatted_tab(rebuilt)
    block_in,      \* argument of a call of extract_repeated_block
    block_out,     \* its result: [block, count]
    key_body,      \* argument of a call of detect_key
    key_out        \* its result

vars == <<pc, tab, title, artist, meta, body, sections, leading_lines,
          headers_found, next_section, type_order, type_stats, unique_order,
          occurrences, rebuilt, rebuilt_again, block_in, block_out,
          key_body, key_out>>

(***************************************************************************)
(* Bounds of the inputs.                                                   *)
(***************************************************************************)
MaxSections == 3      \* chunks (preamble or section) of an input body
MaxBlockLines == 6    \* lines handed to extract_repeated_block on its own
MaxChords == 4        \* chord words of a body handed to detect_key on its own

(***************************************************************************)
(* Characters and str methods.                                             *)
(***************************************************************************)
Ch(s, i) == IF i >= 1 /\ i <= Len(s) THEN SubSeq(s, i, i) ELSE ""

Whitespace == {" "}

LowerMap ==
    [A |-> "a", B |-> "b", C |-> "c", D |-> "d", E |-> "e", F |-> "f",
     G |-> "g", H |-> "h", I |-> "i", J |-> "j", K |-> "k", L |-> "l",
     M |-> "m", N |-> "n", O |-> "o", P |-> "p", Q |-> "q", R |-> "r",
     S |-> "s", T |-> "t", U |-> "u", V |-> "v", W |-> "w", X |-> "x",
     Y |-> "y", Z |-> "z"]

UpperMap ==
    [a |-> "A", b |-> "B", c |-> "C", d |-> "D", e |-> "E", f |-> "F",
     g |-> "G", h |-> "H", i |-> "I", j |-> "J", k |-> "K", l |-> "L",
     m |-> "M", n |-> "N", o |-> "O", p |-> "P", q |-> "Q", r |-> "R",
     s |-> "S", t |-> "T", u |-> "U", v |-> "V", w |-> "W", x |-> "X",
     y |-> "Y", z |-> "Z"]

DigitVal ==
    ("0" :> 0) @@ ("1" :> 1) @@ ("2" :> 2) @@ ("3" :> 3) @@ ("4" :> 4) @@
    ("5" :> 5) @@ ("6" :> 6) @@ ("7" :> 7) @@ ("8" :> 8) @@ ("9" :> 9)

IsUpper(c) == c \in DOMAIN LowerMap
IsLower(c) == c \in DOMAIN UpperMap
IsLetter(c) == IsUpper(c) \/ IsLower(c)
IsDigit(c) == c \in DOMAIN DigitVal
IsWordChar(c) == IsLetter(c) \/ IsDigit(c) \/ c = "_"

RECURSIVE rstrip(_)
rstrip(s) ==
    IF Len(s) > 0 /\ Ch(s, Len(s)) \in Whitespace
    THEN rstrip(SubSeq(s, 1, Len(s) - 1))
    ELSE s

RECURSIVE lstrip(_)
lstrip(s) ==
    IF Len(s) > 0 /\ Ch(s, 1) \in Whitespace
    THEN lstrip(SubSeq(s, 2, Len(s)))
    ELSE s

strip(s) == lstrip(rstrip(s))

startswith(s, p) == Len(s) >= Len(p) /\ SubSeq(s, 1, Len(p)) = p

\* the pattern p occurs in s at position i
At(s, i, p) == i + Len(p) - 1 <= Len(s) /\ SubSeq(s, i, i + Len(p) - 1) = p

contains(s, p) == \E i \in 1..(Len(s) + 1) : At(s, i, p)

\* "".join(chars) of a sequence of strings
RECURSIVE JoinChars(_)
JoinChars(chars) ==
    IF chars = <<>> THEN "" ELSE Head(chars) \o JoinChars(Tail(chars))

LowerAt(s, i) == IF IsUpper(Ch(s, i)) THEN LowerMap[Ch(s, i)] ELSE Ch(s, i)
lower(s) == JoinChars([i \in 1..Len(s) |-> LowerAt(s, i)])

DashToSpaceAt(s, i) == IF Ch(s, i) = "-" THEN " " ELSE Ch(s, i)
replace_dash_space(s) == JoinChars([i \in 1..Len(s) |-> DashToSpaceAt(s, i)])

DropSpaceAt(s, i) == IF Ch(s, i) = " " THEN "" ELSE Ch(s, i)
replace_space_empty(s) == JoinChars([i \in 1..Len(s) |-> DropSpaceAt(s, i)])

\* str.title(): a letter is upper-cased after a non-letter, lower-cased after a letter
TitleAt(s, i) ==
    LET c == Ch(s, i) IN
    IF ~IsLetter(c) THEN c
    ELSE IF i > 1 /\ IsLetter(Ch(s, i - 1))
         THEN (IF IsUpper(c) THEN LowerMap[c] ELSE c)
         ELSE (IF IsLower(c) THEN UpperMap[c] ELSE c)
str_title(s) == JoinChars([i \in 1..Len(s) |-> TitleAt(s, i)])

RECURSIVE to_int(_)
to_int(s) ==
    IF Len(s) = 0 THEN 0
    ELSE 10 * to_int(SubSeq(s, 1, Len(s) - 1)) + DigitVal[Ch(s, Len(s))]

\* index of the first TRUE of a sequence of Booleans, 0 when there is none
FirstTrue(flags) ==
    LET S == {k \in 1..Len(flags) : flags[k]} IN
    IF S = {} THEN 0 ELSE CHOOSE k \in S : \A j \in S : k <= j

(***************************************************************************)
(* Texts as sequences of lines.                                            *)
(***************************************************************************)
\* "\n".join(list), given as the lines of the joined text
Join(list) == IF list = <<>> THEN <<"">> ELSE list

Front(t) == SubSeq(t, 1, Len(t) - 1)
Last(t) == t[Len(t)]

\* str + str on two texts: the last line of one continues with the first of the other
Concat(t, u) == Front(t) \o <<Last(t) \o Head(u)>> \o Tail(u)

\* text.rstrip()
RECURSIVE RStripText(_)
RStripText(t) ==
    IF Len(t) > 1 /\ rstrip(Last(t)) = ""
    THEN RStripText(Front(t))
    ELSE Front(t) \o <<rstrip(Last(t))>>

\* text.lstrip()
RECURSIVE LStripText(_)
LStripText(t) ==
    IF Len(t) > 1 /\ lstrip(Head(t)) = ""
    THEN LStripText(Tail(t))
    ELSE <<lstrip(Head(t))>> \o Tail(t)

\* text.strip()
StripText(t) == LStripText(RStripText(t))

\* text.lstrip("\n")
RECURSIVE LStripNewlines(_)
LStripNewlines(t) ==
    IF Len(t) > 1 /\ Head(t) = "" THEN LStripNewlines(Tail(t)) ELSE t

EmptyText == <<"">>

(***************************************************************************)
(* CHORD_RE and detect_key.                                                *)
(***************************************************************************)
RootLetters == {"A", "B", "C", "D", "E", "F", "G"}
Accidentals == {"#", "b"}

\* the alternatives of group qual, in the order the pattern tries them
Quals ==
    <<"maj7", "maj", "min7", "m7", "m", "min", "dim", "aug", "sus2", "sus4",
      "add9", "6", "7", "9", "11", "13", "m6", "m9", "maj9">>

\* \b holds between positions p - 1 and p of s
WordBoundary(s, p) == IsWordChar(Ch(s, p - 1)) # IsWordChar(Ch(s, p))

\* (?:/[A-G](?:#|b)?)?\b from position e: the position after the match, 0 if none
BassEnd(s, e) ==
    LET opts ==
            (IF Ch(s, e) = "/" /\ Ch(s, e + 1) \in RootLetters
                /\ Ch(s, e + 2) \in Accidentals THEN <<e + 3>> ELSE <<>>)
            \o (IF Ch(s, e) = "/" /\ Ch(s, e + 1) \in RootLetters
                THEN <<e + 2>> ELSE <<>>)
            \o <<e>>
        Ok(x) == WordBoundary(s, x)
        k == FirstTrue([n \in 1..Len(opts) |-> Ok(opts[n])])
    IN  IF k = 0 THEN 0 ELSE opts[k]

\* the optional group qual and what follows it, from position e
QualMatch(s, e) ==
    LET Fits(q) == At(s, e, q)
        opts == SelectSeq(Quals, Fits) \o <<"">>
        Ok(q) == BassEnd(s, e + Len(q)) # 0
        k == FirstTrue([n \in 1..Len(opts) |-> Ok(opts[n])])
    IN  IF k = 0 THEN [end |-> 0, qual |-> ""]
        ELSE [end |-> BassEnd(s, e + Len(opts[k])), qual |-> opts[k]]

\* CHORD_RE tried at position i of s: [end, root, qual], end = 0 when it fails
ChordMatchAt(s, i) ==
    IF ~(WordBoundary(s, i) /\ Ch(s, i) \in RootLetters)
    THEN [end |-> 0, root |-> "", qual |-> ""]
    ELSE
    LET opts == (IF Ch(s, i + 1) \in Accidentals THEN <<i + 2>> ELSE <<>>)
                \o <<i + 1>>
        Ok(e) == QualMatch(s, e).end # 0
        k == FirstTrue([n \in 1..Len(opts) |-> Ok(opts[n])])
    IN  IF k = 0 THEN [end |-> 0, root |-> "", qual |-> ""]
        ELSE [end |-> QualMatch(s, opts[k]).end,
              root |-> SubSeq(s, i, opts[k] - 1),
              qual |-> QualMatch(s, opts[k]).qual]

\* CHORD_RE.finditer over one line, from position i
RECURSIVE ChordsFrom(_, _)
ChordsFrom(s, i) ==
    IF i > Len(s) THEN <<>>
    ELSE LET m == ChordMatchAt(s, i) IN
         IF m.end = 0 THEN ChordsFrom(s, i + 1)
         ELSE <<[root |-> m.root, qual |-> m.qual]>> \o ChordsFrom(s, m.end)

\* CHORD_RE.finditer(body): no match spans a newline, and a newline is no word character
RECURSIVE finditer(_)
finditer(text) ==
    IF text = <<>> THEN <<>>
    ELSE ChordsFrom(Head(text), 1) \o finditer(Tail(text))

is_minor(qual) == startswith(qual, "m") /\ ~startswith(qual, "maj")

\* root_counts / minor_counts after the loop over the matches
RootCount(matches, root) ==
    Cardinality({i \in 1..Len(matches) : matches[i].root = root})
MinorCount(matches, root) ==
    Cardinality({i \in 1..Len(matches) :
                    matches[i].root = root /\ is_minor(matches[i].qual)})

\* max(root_counts.items(), key = count): the first item of the dict, which
\* iterates in insertion order, whose count no item exceeds
BestRootLast(matches) ==
    LET i == CHOOSE i \in 1..Len(matches) :
                 /\ \A j \in 1..Len(matches) :
                        RootCount(matches, matches[j].root)
                            <= RootCount(matches, matches[i].root)
                 /\ \A j \in 1..Len(matches) :
                        RootCount(matches, matches[j].root)
                            = RootCount(matches, matches[i].root) => j <= i
    IN  matches[i].root
BestRoot(matches) ==
    LET i == CHOOSE i \in 1..Len(matches) :
                 /\ \A j \in 1..Len(matches) :
                        RootCount(matches, matches[j].root)
                            <= RootCount(matches, matches[i].root)
                 /\ \A j \in 1..(i - 1) :
                        RootCount(matches, matches[j].root)
                            < RootCount(matches, matches[i].root)
    IN  matches[i].root

KeyOfMatches(matches) ==
    IF matches = <<>> THEN ""
    ELSE LET best_root == BestRoot(matches)
             minor_hits == MinorCount(matches, best_root)
             total_hits == RootCount(matches, best_root)
         IN  IF total_hits > 0 /\ 2 * minor_hits >= total_hits
             THEN best_root \o "m"
             ELSE best_root

detect_key(text) == KeyOfMatches(finditer(text))

(***************************************************************************)
(* parse_section_header.                                                   *)
(***************************************************************************)
NoNumber == -1

RECURSIVE TrailingDigits(_)
TrailingDigits(s) ==
    IF Len(s) > 0 /\ IsDigit(Ch(s, Len(s)))
    THEN 1 + TrailingDigits(SubSeq(s, 1, Len(s) - 1))
    ELSE 0

\* re.match(r"^(.*?)(?:\s+(\d+))?$", name): [base_part, num]
SplitNumber(name) ==
    LET d == TrailingDigits(name)
        before == SubSeq(name, 1, Len(name) - d)
    IN  IF d > 0 /\ Len(before) > 0 /\ Ch(before, Len(before)) \in Whitespace
        THEN [base_part |-> strip(before),
              num |-> to_int(SubSeq(name, Len(name) - d + 1, Len(name)))]
        ELSE [base_part |-> strip(name), num |-> NoNumber]

parse_section_header(raw) ==
    LET name == strip(raw)
        m == SplitNumber(name)
        base_part == m.base_part
        num == m.num
        base == strip(replace_dash_space(lower(base_part)))
        R(t, p) == [type |-> t, prefix |-> p, num |-> num]
    IN  IF contains(base, "pre") /\ contains(base, "chorus") THEN R("Pre-Chorus", "PC")
        ELSE IF startswith(base, "verse") THEN R("Verse", "V")
        ELSE IF startswith(base, "chorus") THEN R("Chorus", "C")
        ELSE IF startswith(base, "intro") THEN R("Intro", "Intro")
        ELSE IF startswith(base, "outro") THEN R("Outro", "Outro")
        ELSE IF startswith(base, "bridge") \/ base = "b" THEN R("Bridge", "B")
        ELSE IF startswith(base, "instrument") \/ startswith(base, "instr")
             THEN R("Instrumental", "Instr")
        ELSE IF startswith(base, "solo") THEN R("Solo", "Solo")
        ELSE IF startswith(base, "tag") THEN R("Tag", "Tag")
        ELSE IF startswith(base, "interlude") THEN R("Interlude", "Interlude")
        ELSE IF startswith(base, "pre") THEN R("Pre-Chorus", "PC")
        ELSE R(str_title(base_part), replace_space_empty(str_title(base_part)))

(***************************************************************************)
(* normalize_content, clean_lines, starts_with_lines, extract_repeated_block *)
(***************************************************************************)
normalize_content(content_lines) == StripText(Join(content_lines))

clean_lines(content_lines) ==
    [i \in 1..Len(content_lines) |-> rstrip(content_lines[i])]

starts_with_lines(candidate, prefix) ==
    IF Len(candidate) < Len(prefix) THEN FALSE
    ELSE \A i \in 1..Len(prefix) : candidate[i] = prefix[i]

\* lines[i * size : (i + 1) * size] == block for every i in range(count)
RepeatsBlock(lines, size) ==
    \A i \in 0..((Len(lines) \div size) - 1) :
        SubSeq(lines, i * size + 1, (i + 1) * size) = SubSeq(lines, 1, size)

\* variant: the largest repeating block instead of the smallest
extract_largest_block(lines) ==
    LET n == Len(lines)
        sizes == {size \in 1..(n \div 2) :
                     n % size = 0 /\ RepeatsBlock(lines, size)}
    IN  IF n = 0 THEN [block |-> lines, count |-> 1]
        ELSE IF sizes = {} THEN [block |-> lines, count |-> 1]
        ELSE LET size == CHOOSE x \in sizes : \A y \in sizes : y <= x
             IN  [block |-> SubSeq(lines, 1, size), count |-> n \div size]

extract_repeated_block(lines) ==
    LET n == Len(lines)
        sizes == {size \in 1..(n \div 2) :
                     n % size = 0 /\ RepeatsBlock(lines, size)}
    IN  IF n = 0 THEN [block |-> lines, count |-> 1]
        ELSE IF sizes = {} THEN [block |-> lines, count |-> 1]
        ELSE LET size == CHOOSE x \in sizes : \A y \in sizes : x <= y
             IN  [block |-> SubSeq(lines, 1, size), count |-> n \div size]

(***************************************************************************)
(* rebuild_formatted_tab: header extraction and section splitting.         *)
(***************************************************************************)
meta_names == <<"Key", "Capo", "Tempo", "Time", "Flow", "Tuning", "TransposedKey">>

\* the fallback arguments of every run
artist_fb == ""
title_fb == ""
file_base == "Band - Song.txt"

\* position of the last "." of s, 0 when there is none
LastDot(s) ==
    LET S == {i \in 1..Len(s) : Ch(s, i) = "."} IN
    IF S = {} THEN 0 ELSE CHOOSE i \in S : \A j \in S : j <= i

\* position of the first " - " of s, 0 when there is none
FirstSeparator(s) ==
    LET S == {i \in 1..Len(s) : At(s, i, " - ")} IN
    IF S = {} THEN 0 ELSE CHOOSE i \in S : \A j \in S : i <= j

\* file_artist and file_title
FileParts(fb) ==
    IF fb = "" THEN [artist |-> "", title |-> ""]
    ELSE LET base_no_ext == IF LastDot(fb) = 0 THEN fb
                            ELSE SubSeq(fb, 1, LastDot(fb) - 1)
             k == FirstSeparator(base_no_ext)
         IN  IF k # 0
             THEN [artist |-> strip(SubSeq(base_no_ext, 1, k - 1)),
                   title |-> strip(SubSeq(base_no_ext, k + 3, Len(base_no_ext)))]
             ELSE [artist |-> "", title |-> strip(base_no_ext)]

\* a or b, on strings
OrElse(a, b) == IF a # "" THEN a ELSE b

\* re.match(rf"^{name}:\s*(.*)$", line), then group(1).strip(); "" without a match
MetaValue(lines, offset, name) ==
    IF offset <= Len(lines) /\ startswith(lines[offset], name \o ":")
    THEN strip(SubSeq(lines[offset], Len(name) + 2, Len(lines[offset])))
    ELSE ""

MetaOfLines(lines) ==
    [k \in 1..Len(meta_names) |-> MetaValue(lines, k + 2, meta_names[k])]

\* the defaults of Capo, Tuning and Key
MetaDefaults(m, body_text) ==
    [k \in 1..Len(meta_names) |->
        IF meta_names[k] = "Capo" /\ m[k] = "" THEN "0"
        ELSE IF meta_names[k] = "Tuning" /\ m[k] = "" THEN "Standard"
        ELSE IF meta_names[k] = "Key" /\ m[k] = "" THEN detect_key(body_text)
        ELSE m[k]]

MetaIndex(name) == CHOOSE k \in 1..Len(meta_names) : meta_names[k] = name

BodyOfLines(lines) ==
    LET first == 2 + Len(meta_names) + 1
        body_start == IF first <= Len(lines) /\ strip(lines[first]) = ""
                      THEN first + 1 ELSE first
    IN  LStripNewlines(Join(SubSeq(lines, body_start, Len(lines))))

LabelChars == {" ", "-", "'", "/"}

\* header_re matches s, a stripped line
header_re_match(s) ==
    /\ Len(s) >= 3
    /\ Ch(s, Len(s)) = ":"
    /\ IsLetter(Ch(s, 1))
    /\ \A i \in 2..(Len(s) - 1) :
           IsLetter(Ch(s, i)) \/ IsDigit(Ch(s, i)) \/ Ch(s, i) \in LabelChars

\* m.group(1).strip()
header_re_label(s) == strip(SubSeq(s, 1, Len(s) - 1))

SplitStart ==
    [sections |-> <<>>, leading_lines |-> <<>>, has_header |-> FALSE,
     current_header |-> "", current_lines |-> <<>>, headers_found |-> 0]

\* one iteration of the loop over lines_in_body
SplitLine(st, line) ==
    IF header_re_match(strip(line))
    THEN [st EXCEPT
            !.headers_found = @ + 1,
            !.sections = IF st.has_header
                         THEN Append(@, [header |-> st.current_header,
                                         lines |-> st.current_lines])
                         ELSE @,
            !.has_header = TRUE,
            !.current_header = header_re_label(strip(line)),
            !.current_lines = <<>>]
    ELSE IF ~st.has_header
         THEN [st EXCEPT !.leading_lines = Append(@, line)]
         ELSE [st EXCEPT !.current_lines = Append(@, line)]

RECURSIVE SplitLoop(_, _, _)
SplitLoop(lines, i, st) ==
    IF i > Len(lines) THEN st
    ELSE SplitLoop(lines, i + 1, SplitLine(st, lines[i]))

SplitBody(body_text) ==
    LET st == SplitLoop(body_text, 1, SplitStart) IN
    [sections |-> IF st.has_header
                  THEN Append(st.sections, [header |-> st.current_header,
                                            lines |-> st.current_lines])
                  ELSE st.sections,
     leading_lines |-> st.leading_lines,
     headers_found |-> st.headers_found]

(***************************************************************************)
(* rebuild_formatted_tab: the loop over sections (deduplication).          *)
(***************************************************************************)
NoExtension == 0

DedupStart ==
    [type_order |-> <<>>, type_stats |-> <<>>, unique_order |-> <<>>,
     occurrences |-> <<>>]

\* type_stats.setdefault(type_name, {"unique": [], "prefix": prefix, "count": 0})
StatsOf(st, type_name, prefix) ==
    IF type_name \in DOMAIN st.type_stats
    THEN st.type_stats[type_name]
    ELSE [unique |-> <<>>, prefix |-> prefix, count |-> 0]

\* if unique_id not in unique_order: unique_order.append(unique_id)
AddUnique(order, unique_id) ==
    IF \E k \in 1..Len(order) : order[k] = unique_id
    THEN order ELSE Append(order, unique_id)

\* what the loop over stats["unique"] decides for one section:
\* [match_idx, extension_created, unique] with unique the list afterwards
\* variant: the extension rule applied to every type
ResolveAnyType(type_name, unique, content_clean, content_key) ==
    LET Hit(u) ==
            \/ u.key = content_key
            \/ starts_with_lines(content_clean, u.lines_clean)
        idx == FirstTrue([n \in 1..Len(unique) |-> Hit(unique[n])])
    IN  IF idx = 0
        THEN [match_idx |-> Len(unique) + 1, extension_created |-> FALSE,
              unique |-> Append(unique,
                  [key |-> content_key, lines |-> content_clean,
                   lines_clean |-> content_clean, extension_of |-> NoExtension])]
        ELSE IF unique[idx].key = content_key
        THEN [match_idx |-> idx, extension_created |-> FALSE, unique |-> unique]
        ELSE
        LET extension_lines ==
                SubSeq(content_clean, Len(unique[idx].lines_clean) + 1, Len(content_clean))
            extension_key == StripText(Join(extension_lines))
            Ext(uj) == uj.extension_of = idx /\ uj.key = extension_key
            jdx == FirstTrue([n \in 1..Len(unique) |-> Ext(unique[n])])
        IN  IF extension_key = EmptyText
            THEN [match_idx |-> idx, extension_created |-> FALSE, unique |-> unique]
            ELSE IF jdx # 0
            THEN [match_idx |-> jdx, extension_created |-> FALSE, unique |-> unique]
            ELSE [match_idx |-> Len(unique) + 1, extension_created |-> TRUE,
                  unique |-> Append(unique,
                      [key |-> extension_key, lines |-> extension_lines,
                       lines_clean |-> extension_lines, extension_of |-> idx])]

\* variant: every section becomes a new entry, no content is ever reused
ResolveNoReuse(type_name, unique, content_clean, content_key) ==
    [match_idx |-> Len(unique) + 1, extension_created |-> FALSE,
     unique |-> Append(unique,
         [key |-> content_key, lines |-> content_clean,
          lines_clean |-> content_clean, extension_of |-> NoExtension])]

Resolve(type_name, unique, content_clean, content_key) ==
    LET Hit(u) ==
            \/ u.key = content_key
            \/ type_name = "Chorus" /\ starts_with_lines(content_clean, u.lines_clean)
        idx == FirstTrue([n \in 1..Len(unique) |-> Hit(unique[n])])
    IN  IF idx = 0
        THEN [match_idx |-> Len(unique) + 1, extension_created |-> FALSE,
              unique |-> Append(unique,
                  [key |-> content_key, lines |-> content_clean,
                   lines_clean |-> content_clean, extension_of |-> NoExtension])]
        ELSE IF unique[idx].key = content_key
        THEN [match_idx |-> idx, extension_created |-> FALSE, unique |-> unique]
        ELSE
        LET extension_lines ==
                SubSeq(content_clean, Len(unique[idx].lines_clean) + 1, Len(content_clean))
            extension_key == StripText(Join(extension_lines))
            Ext(uj) == uj.extension_of = idx /\ uj.key = extension_key
            jdx == FirstTrue([n \in 1..Len(unique) |-> Ext(unique[n])])
        IN  IF extension_key = EmptyText
            THEN [match_idx |-> idx, extension_created |-> FALSE, unique |-> unique]
            ELSE IF jdx # 0
            THEN [match_idx |-> jdx, extension_created |-> FALSE, unique |-> unique]
            ELSE [match_idx |-> Len(unique) + 1, extension_created |-> TRUE,
                  unique |-> Append(unique,
                      [key |-> extension_key, lines |-> extension_lines,
                       lines_clean |-> extension_lines, extension_of |-> idx])]

\* variant: one occurrence per section, whatever its repeat count
RepeatedOnce(occ, repeat_count) == <<occ>>

\* for _ in range(repeat_count): occurrences.append(...)
Repeated(occ, repeat_count) == [k \in 1..repeat_count |-> occ]

\* the body of "for entry in sections"
DedupStep(st, entry) ==
    LET hdr == parse_section_header(entry.header)
        type_name == hdr.type
        prefix == hdr.prefix
        content_clean_raw == clean_lines(entry.lines)
        collapsed == extract_repeated_block(content_clean_raw)
        content_clean == collapsed.block
        repeat_count == collapsed.count
        content_key == StripText(Join(content_clean))
        stats == StatsOf(st, type_name, prefix)
        r == Resolve(type_name, stats.unique, content_clean, content_key)
        created == Len(r.unique) > Len(stats.unique)
        new_stats == [unique |-> r.unique, prefix |-> stats.prefix,
                      count |-> stats.count + repeat_count]
    IN  [type_order |-> IF type_name \in DOMAIN st.type_stats
                        THEN st.type_order ELSE Append(st.type_order, type_name),
         type_stats |-> (type_name :> new_stats) @@ st.type_stats,
         unique_order |-> IF created
                          THEN AddUnique(st.unique_order, <<type_name, r.match_idx>>)
                          ELSE st.unique_order,
         occurrences |-> st.occurrences \o
             Repeated([type |-> type_name, prefix |-> prefix,
                       unique_idx |-> r.match_idx,
                       extension |-> r.extension_created], repeat_count)]

RECURSIVE DedupLoop(_, _, _)
DedupLoop(secs, i, st) ==
    IF i > Len(secs) THEN st
    ELSE DedupLoop(secs, i + 1, DedupStep(st, secs[i]))

(***************************************************************************)
(* rebuild_formatted_tab: numbering, Flow and the body.                    *)
(***************************************************************************)
numbering_types == {"Verse", "Pre-Chorus", "Chorus", "Bridge"}

needs_numbering(stats_of, type_name) ==
    LET stats == stats_of[type_name] IN
    \/ Len(stats.unique) > 1
    \/ (stats.count > 1 /\ type_name \in numbering_types)

\* variant: a number only when the type has several unique contents
DisplayEntryUniqueOnly(stats_of, type_name, idx) ==
    LET stats == stats_of[type_name]
        number == IF Len(stats.unique) > 1 THEN idx ELSE 0
    IN  [display_name |-> IF number # 0
                          THEN type_name \o " " \o ToString(number) ELSE type_name,
         token |-> IF number # 0
                   THEN stats.prefix \o ToString(number) ELSE stats.prefix,
         lines |-> stats.unique[idx].lines,
         extension_of |-> stats.unique[idx].extension_of]

\* display_map[(type_name, idx)]
DisplayEntry(stats_of, type_name, idx) ==
    LET stats == stats_of[type_name]
        number_required == needs_numbering(stats_of, type_name)
        numbered == number_required
                    \/ (stats.count > 1 /\ type_name \in numbering_types)
        number == IF numbered THEN idx ELSE 0
    IN  [display_name |-> IF number # 0
                          THEN type_name \o " " \o ToString(number) ELSE type_name,
         token |-> IF number # 0
                   THEN stats.prefix \o ToString(number) ELSE stats.prefix,
         lines |-> stats.unique[idx].lines,
         extension_of |-> stats.unique[idx].extension_of]

\* tokens_in_flow
TokensInFlow(stats_of, occs) ==
    [k \in 1..Len(occs) |->
        DisplayEntry(stats_of, occs[k].type, occs[k].unique_idx).token]

\* sep.join(parts) of strings
RECURSIVE JoinStr(_, _)
JoinStr(parts, sep) ==
    IF Len(parts) = 0 THEN ""
    ELSE IF Len(parts) = 1 THEN parts[1]
    ELSE parts[1] \o sep \o JoinStr(Tail(parts), sep)

\* "\n".join(parts) of texts
RECURSIVE JoinTexts(_)
JoinTexts(parts) ==
    IF Len(parts) = 0 THEN EmptyText
    ELSE IF Len(parts) = 1 THEN parts[1]
    ELSE parts[1] \o JoinTexts(Tail(parts))

\* "\n\n".join(parts) of texts
RECURSIVE JoinBlocks(_)
JoinBlocks(parts) ==
    IF Len(parts) = 0 THEN EmptyText
    ELSE IF Len(parts) = 1 THEN parts[1]
    ELSE parts[1] \o <<"">> \o JoinBlocks(Tail(parts))

NotEmptyText(t) == t # EmptyText
NotBlankText(t) == StripText(t) # EmptyText

\* one element of body_blocks for a unique content
Block(stats_of, unique_id) ==
    LET mapping == DisplayEntry(stats_of, unique_id[1], unique_id[2])
        section_lines == mapping.lines
        header_line == mapping.display_name \o ":"
        block_parts ==
            <<<<header_line>>>>
            \o (IF section_lines # <<>> /\ strip(section_lines[1]) # ""
                THEN <<EmptyText>> ELSE <<>>)
            \o <<RStripText(Join(section_lines))>>
    IN  JoinTexts(SelectSeq(block_parts, NotEmptyText))

body_blocks(stats_of, order, leading) ==
    (IF leading # <<>> /\ RStripText(Join(leading)) # EmptyText
     THEN <<RStripText(Join(leading))>> ELSE <<>>)
    \o [k \in 1..Len(order) |-> Block(stats_of, order[k])]

\* body when headers_found > 0
StructuredBody(stats_of, order, leading) ==
    Concat(RStripText(JoinBlocks(
               SelectSeq(body_blocks(stats_of, order, leading), NotBlankText))),
           <<"", "">>)

(***************************************************************************)
(* rebuild_formatted_tab: the Flow of a body without section headers.      *)
(***************************************************************************)
\* re.match(r"^([A-Za-z ]+):\s*$", s) on a stripped line s
flow_re_match(s) ==
    /\ Len(s) >= 2
    /\ Ch(s, Len(s)) = ":"
    /\ \A i \in 1..(Len(s) - 1) : IsLetter(Ch(s, i)) \/ Ch(s, i) = " "

DigitsAt(s, i) == IF IsDigit(Ch(s, i)) THEN Ch(s, i) ELSE ""
\* "".join(ch for ch in name if ch.isdigit()) or "1"
DigitsOrOne(name) == OrElse(JoinChars([i \in 1..Len(name) |-> DigitsAt(name, i)]), "1")

\* token of one body line, "" when it gives none
FallbackToken(line) ==
    IF strip(line) = "" \/ ~flow_re_match(strip(line)) THEN ""
    ELSE LET name == strip(SubSeq(strip(line), 1, Len(strip(line)) - 1))
             low == lower(name)
         IN  IF startswith(low, "intro") THEN "Intro"
             ELSE IF startswith(low, "verse") THEN "V" \o DigitsOrOne(name)
             ELSE IF contains(low, "pre") THEN "PC" \o DigitsOrOne(name)
             ELSE IF contains(low, "chorus") THEN "C" \o DigitsOrOne(name)
             ELSE IF contains(low, "bridge") \/ low = "b" THEN "B"
             ELSE IF contains(low, "solo") THEN "Solo"
             ELSE IF contains(low, "outro") THEN "Outro"
             ELSE IF contains(low, "tag") THEN "Tag"
             ELSE ""

RECURSIVE section_tokens(_, _, _)
section_tokens(lines, i, acc) ==
    IF i > Len(lines) THEN acc
    ELSE LET token == FallbackToken(lines[i]) IN
         section_tokens(lines, i + 1,
             IF token # "" /\ ~(\E k \in 1..Len(acc) : acc[k] = token)
             THEN Append(acc, token) ELSE acc)

(***************************************************************************)
(* rebuild_formatted_tab: what it returns.                                 *)
(***************************************************************************)
\* meta["Flow"] at the end
FinalFlow(m, found, stats_of, occs, body_text) ==
    IF found > 0
    THEN (IF Len(occs) > 0 THEN JoinStr(TokensInFlow(stats_of, occs), ", ")
          ELSE m[MetaIndex("Flow")])
    ELSE IF m[MetaIndex("Flow")] = ""
    THEN (IF section_tokens(body_text, 1, <<>>) # <<>>
          THEN JoinStr(section_tokens(body_text, 1, <<>>), " ")
          ELSE "")
    ELSE m[MetaIndex("Flow")]

FinalMeta(m, found, stats_of, occs, body_text) ==
    [k \in 1..Len(meta_names) |->
        IF meta_names[k] = "Flow" THEN FinalFlow(m, found, stats_of, occs, body_text)
        ELSE m[k]]

FinalBody(found, stats_of, order, leading, body_text) ==
    IF found > 0 THEN StructuredBody(stats_of, order, leading) ELSE body_text

header_lines(ttl, art, m) ==
    <<ttl, art>> \o [k \in 1..Len(meta_names) |-> meta_names[k] \o ": " \o m[k]]
    \o <<"", "">>

Rebuilt(ttl, art, m, body_text) == Concat(Join(header_lines(ttl, art, m)), body_text)

\* the locals after the header extraction and the split into sections
Parsed(lines) ==
    LET body_text == BodyOfLines(lines)
        split == SplitBody(body_text)
    IN  [title |-> OrElse(strip(lines[1]),
                     OrElse(title_fb, OrElse(FileParts(file_base).title, "Unknown Song"))),
         artist |-> OrElse(IF Len(lines) > 1 THEN strip(lines[2]) ELSE "",
                     OrElse(artist_fb, OrElse(FileParts(file_base).artist, "Unknown Artist"))),
         meta |-> MetaDefaults(MetaOfLines(lines), body_text),
         body |-> body_text,
         sections |-> split.sections,
         leading_lines |-> split.leading_lines,
         headers_found |-> split.headers_found]

\* rebuild_formatted_tab(tab, artist_fb, title_fb, file_base) as one function
rebuild_formatted_tab(lines) ==
    LET p == Parsed(lines)
        d == DedupLoop(p.sections, 1, DedupStart)
    IN  Rebuilt(p.title, p.artist,
                FinalMeta(p.meta, p.headers_found, d.type_stats, d.occurrences, p.body),
                FinalBody(p.headers_found, d.type_stats, d.unique_order,
                          p.leading_lines, p.body))

(***************************************************************************)
(* Inputs.                                                                 *)
(***************************************************************************)
\* header labels of the input bodies
InputLabels == {"Verse 2", "Chorus", "Solo"}

\* content of a chunk: nothing, a blank line, one chord line, a blank line and
\* a chord line, one chord line twice, two chord lines in either order
InputContents ==
    {<<>>, <<"">>, <<"Am">>, <<"", "Am">>, <<"Am", "Am">>, <<"Am", "G ">>,
     <<"G ", "Am">>}

\* the nine header lines and the blank line of every input tab
TabHeader ==
    <<"My Song", "", "Key: ", "Capo: ", "Tempo: 90", "Time: ", "Flow: X",
      "Tuning: ", "TransposedKey: ", "">>

SeqsUpTo(S, n) == UNION {[1..k -> S] : k \in 0..n}

\* a chunk is a section (label and content) or, with the label "", a preamble
Chunks == [label : InputLabels \cup {""}, lines : InputContents]

\* only the first chunk of a body can be its preamble
ChunkSeqs ==
    {cs \in SeqsUpTo(Chunks, MaxSections) : \A k \in 2..Len(cs) : cs[k].label # ""}

RECURSIVE BodyLines(_)
BodyLines(cs) ==
    IF cs = <<>> THEN <<>>
    ELSE (IF Head(cs).label = "" THEN <<>> ELSE <<Head(cs).label \o ":">>)
         \o Head(cs).lines \o BodyLines(Tail(cs))

Tabs == {TabHeader \o BodyLines(cs) : cs \in ChunkSeqs}

BlockLines == {"E", "F", "G"}
BlockInputs == SeqsUpTo(BlockLines, MaxBlockLines)

ChordWords == {"Am", "A", "G", "Gm7", "Cmaj7"}
KeyBodies == {<<JoinStr(ws, " ")>> : ws \in SeqsUpTo(ChordWords, MaxChords)}

(***************************************************************************)
(* The run of rebuild_formatted_tab, step by step.                         *)
(***************************************************************************)
NoText == <<>>

IdleRebuild ==
    /\ tab = NoText /\ title = "" /\ artist = ""
    /\ meta = <<>> /\ body = NoText /\ sections = <<>>
    /\ leading_lines = <<>> /\ headers_found = 0 /\ next_section = 1
    /\ type_order = <<>> /\ type_stats = <<>> /\ unique_order = <<>>
    /\ occurrences = <<>> /\ rebuilt = NoText /\ rebuilt_again = NoText

IdleBlock == block_in = <<>> /\ block_out = [block |-> <<>>, count |-> 0]
IdleKey == key_body = NoText /\ key_out = ""

Init ==
    /\ pc = "start"
    /\ tab \in Tabs
    /\ title = "" /\ artist = ""
    /\ meta = <<>> /\ body = NoText /\ sections = <<>>
    /\ leading_lines = <<>> /\ headers_found = 0 /\ next_section = 1
    /\ type_order = <<>> /\ type_stats = <<>> /\ unique_order = <<>>
    /\ occurrences = <<>> /\ rebuilt = NoText /\ rebuilt_again = NoText
    /\ IdleBlock /\ IdleKey

\* lines 100-164: header, defaults, body, split into sections
ParseTab ==
    /\ pc = "start"
    /\ \E p \in {Parsed(tab)} :
        /\ title' = p.title
        /\ artist' = p.artist
        /\ meta' = p.meta
        /\ body' = p.body
        /\ sections' = p.sections
        /\ leading_lines' = p.leading_lines
        /\ headers_found' = p.headers_found
    /\ next_section' = 1
    /\ type_order' = DedupStart.type_order
    /\ type_stats' = DedupStart.type_stats
    /\ unique_order' = DedupStart.unique_order
    /\ occurrences' = DedupStart.occurrences
    /\ pc' = "sections"
    /\ UNCHANGED <<tab, rebuilt, rebuilt_again, block_in, block_out, key_body, key_out>>

\* lines 171-221: one iteration of the loop over sections
DedupSection ==
    /\ pc = "sections"
    /\ headers_found > 0
    /\ next_section <= Len(sections)
    /\ \E d \in {DedupStep([type_order |-> type_order, type_stats |-> type_stats,
                           unique_order |-> unique_order, occurrences |-> occurrences],
                          sections[next_section])} :
        /\ type_order' = d.type_order
        /\ type_stats' = d.type_stats
        /\ unique_order' = d.unique_order
        /\ occurrences' = d.occurrences
    /\ next_section' = next_section + 1
    /\ UNCHANGED <<pc, tab, title, artist, meta, body, sections, leading_lines,
                   headers_found, rebuilt, rebuilt_again, block_in, block_out,
                   key_body, key_out>>

\* lines 223-316: numbering, Flow, body and the returned text
Finish ==
    /\ pc = "sections"
    /\ headers_found = 0 \/ next_section > Len(sections)
    /\ meta' = FinalMeta(meta, headers_found, type_stats, occurrences, body)
    /\ body' = FinalBody(headers_found, type_stats, unique_order, leading_lines, body)
    /\ rebuilt' = Rebuilt(title, artist, meta', body')
    /\ pc' = "returned"
    /\ UNCHANGED <<tab, title, artist, sections, leading_lines, headers_found,
                   next_section, type_order, type_stats, unique_order, occurrences,
                   rebuilt_again, block_in, block_out, key_body, key_out>>

\* a second run of rebuild_formatted_tab, on the text the first one returned
Rerun ==
    /\ pc = "returned"
    /\ \E p \in {Parsed(rebuilt)} :
       \E d \in {DedupLoop(p.sections, 1, DedupStart)} :
       \E m \in {FinalMeta(p.meta, p.headers_found, d.type_stats, d.occurrences,
                            p.body)} :
       \E b \in {FinalBody(p.headers_found, d.type_stats, d.unique_order,
                            p.leading_lines, p.body)} :
          rebuilt_again' = Rebuilt(p.title, p.artist, m, b)
    /\ pc' = "rerun"
    /\ UNCHANGED <<tab, title, artist, meta, body, sections, leading_lines,
                   headers_found, next_section, type_order, type_stats,
                   unique_order, occurrences, rebuilt, block_in, block_out,
                   key_body, key_out>>

Next == ParseTab \/ DedupSection \/ Finish \/ Rerun

Spec == Init /\ [][Next]_vars

(***************************************************************************)
(* extract_repeated_block on its own.                                      *)
(***************************************************************************)
InitBlock ==
    /\ pc = "block"
    /\ block_in \in BlockInputs
    /\ block_out = [block |-> <<>>, count |-> 0]
    /\ IdleRebuild /\ IdleKey

CollapseBlock ==
    /\ pc = "block"
    /\ block_out' = extract_repeated_block(block_in)
    /\ pc' = "collapsed"
    /\ UNCHANGED <<tab, title, artist, meta, body, sections, leading_lines,
                   headers_found, next_section, type_order, type_stats,
                   unique_order, occurrences, rebuilt, rebuilt_again, block_in,
                   key_body, key_out>>

NextBlock == CollapseBlock

SpecBlock == InitBlock /\ [][NextBlock]_vars

(***************************************************************************)
(* detect_key on its own.                                                  *)
(***************************************************************************)
InitKey ==
    /\ pc = "key"
    /\ key_body \in KeyBodies
    /\ key_out = ""
    /\ IdleRebuild /\ IdleBlock

DetectKey ==
    /\ pc = "key"
    /\ key_out' = detect_key(key_body)
    /\ pc' = "detected"
    /\ UNCHANGED <<tab, title, artist, meta, body, sections, leading_lines,
                   headers_found, next_section, type_order, type_stats,
                   unique_order, occurrences, rebuilt, rebuilt_again, block_in,
                   block_out, key_body>>

NextKey == DetectKey

SpecKey == InitKey /\ [][NextKey]_vars

(***************************************************************************)
(* Vocabulary of the properties.                                           *)
(***************************************************************************)
RECURSIVE SumSeq(_)
SumSeq(q) == IF q = <<>> THEN 0 ELSE Head(q) + SumSeq(Tail(q))

\* the positions of the separators ", " of a Flow value
Separators(flow) == {i \in 1..Len(flow) : At(flow, i, ", ")}
NthSeparator(flow, n) ==
    CHOOSE i \in Separators(flow) :
        Cardinality({j \in Separators(flow) : j < i}) = n - 1

\* the tokens of a Flow value: its pieces between ", "
FlowTokens(flow) ==
    IF flow = "" THEN <<>>
    ELSE [n \in 1..(Cardinality(Separators(flow)) + 1) |->
            SubSeq(flow,
                   IF n = 1 THEN 1 ELSE NthSeparator(flow, n - 1) + 2,
                   IF n = Cardinality(Separators(flow)) + 1 THEN Len(flow)
                   ELSE NthSeparator(flow, n) - 1)]

FlowValue == meta[MetaIndex("Flow")]

IsHeaderLine(line) == header_re_match(strip(line))
HeaderLinesOf(text) == SelectSeq(text, IsHeaderLine)

Types == DOMAIN type_stats
UniqueOf(T) == type_stats[T].unique
Entries == UNION {{<<T, i>> : i \in 1..Len(UniqueOf(T))} : T \in Types}
OccurrencesOf(T) == {k \in 1..Len(occurrences) : occurrences[k].type = T}
RangeOf(q) == {q[k] : k \in 1..Len(q)}
IsPrefixOf(q, r) == Len(q) <= Len(r) /\ SubSeq(r, 1, Len(q)) = q

\* block sizes s, 1 <= s <= n/2, s dividing n, of which the lines are a repetition
Periods(lines) ==
    {sz \in 1..Len(lines) :
        /\ 2 * sz <= Len(lines)
        /\ Len(lines) % sz = 0
        /\ \A i \in 1..Len(lines) : lines[i] = lines[((i - 1) % sz) + 1]}
MinPeriod(lines) == CHOOSE sz \in Periods(lines) : \A o \in Periods(lines) : sz <= o
CollapsedBlock(lines) ==
    IF Periods(lines) = {} THEN lines ELSE SubSeq(lines, 1, MinPeriod(lines))
CollapsedCount(lines) ==
    IF Periods(lines) = {} THEN 1 ELSE Len(lines) \div MinPeriod(lines)

RECURSIVE RepeatLines(_, _)
RepeatLines(block, n) == IF n = 0 THEN <<>> ELSE block \o RepeatLines(block, n - 1)

\* the lines of a section with trailing whitespace removed from each
Trimmed(lines) == [i \in 1..Len(lines) |-> rstrip(lines[i])]

\* canonical type, collapsed lines, repeat count and key of the section handled next
SecType == parse_section_header(sections[next_section].header).type
SecLines == CollapsedBlock(Trimmed(sections[next_section].lines))
SecCount == CollapsedCount(Trimmed(sections[next_section].lines))
SecKey == StripText(Join(SecLines))
SecOld == IF SecType \in Types THEN UniqueOf(SecType) ELSE <<>>
SecNew == type_stats'[SecType].unique
DedupHappens == pc = "sections" /\ next_section' = next_section + 1
NewOccurrences ==
    {k \in 1..Len(occurrences') : k > Len(occurrences)}

Structured == pc = "returned" /\ headers_found > 0

(***************************************************************************)
(* C1.  Running rebuild_formatted_tab on its own output returns that       *)
(* output unchanged: rebuild(rebuild(t)) = rebuild(t).                     *)
(***************************************************************************)
C1_Idempotent == pc = "rerun" => rebuilt_again = rebuilt

(***************************************************************************)
(* C2.  Numbering rule.  A type is numbered when it has several unique     *)
(* contents, or is one of Verse, Pre-Chorus, Chorus, Bridge and occurs     *)
(* more than once in total; the k-th unique content of a numbered type is  *)
(* named "T k" with token "<abbrev>k", an unnumbered one has the bare name *)
(* and abbreviation.  Numbers written in the input headers play no part.   *)
(***************************************************************************)
EligibleTypes == {"Verse", "Pre-Chorus", "Chorus", "Bridge"}

AbbrevOf(T) ==
    CASE T = "Verse" -> "V"
      [] T = "Chorus" -> "C"
      [] T = "Pre-Chorus" -> "PC"
      [] T = "Bridge" -> "B"
      [] T = "Instrumental" -> "Instr"
      [] OTHER -> replace_space_empty(T)

MustNumber(T) ==
    \/ Len(UniqueOf(T)) > 1
    \/ (T \in EligibleTypes /\ Cardinality(OccurrencesOf(T)) > 1)
RuleName(T, k) == IF MustNumber(T) THEN T \o " " \o ToString(k) ELSE T
RuleToken(T, k) == IF MustNumber(T) THEN AbbrevOf(T) \o ToString(k) ELSE AbbrevOf(T)

C2_NumberingRule ==
    Structured =>
        /\ HeaderLinesOf(body) =
               [k \in 1..Len(unique_order) |->
                   RuleName(unique_order[k][1], unique_order[k][2]) \o ":"]
        /\ FlowTokens(FlowValue) =
               [k \in 1..Len(occurrences) |->
                   RuleToken(occurrences[k].type, occurrences[k].unique_idx)]

\* three "Verse 2" sections with one content: named "Verse 1", token V1 three times
C2_Witness ==
    /\ Structured
    /\ Len(sections) = 3
    /\ \A k \in 1..3 : sections[k].header = "Verse 2"
    /\ Len(UniqueOf("Verse")) = 1
    /\ HeaderLinesOf(body) = <<"Verse 1:">>
    /\ FlowValue = "V1, V1, V1"

(***************************************************************************)
(* C3.  With at least one section header, Flow is the ", "-joined token    *)
(* sequence of the occurrences in reading order: as many tokens as the sum *)
(* of the repeat counts, k consecutive tokens for a section of repeat      *)
(* count k, each the token of the entry the occurrence resolved to; the    *)
(* Flow of the input header is replaced.                                   *)
(***************************************************************************)
SectionCounts ==
    [i \in 1..Len(sections) |-> CollapsedCount(Trimmed(sections[i].lines))]
OffsetIn(counts, i) == SumSeq(SubSeq(counts, 1, i - 1))
InputFlow == MetaValue(tab, MetaIndex("Flow") + 2, "Flow")

C3_FlowFollowsOccurrences ==
    Structured =>
        \E tokens \in {FlowTokens(FlowValue)} : \E counts \in {SectionCounts} :
            /\ Len(tokens) = SumSeq(counts)
            /\ Len(occurrences) = SumSeq(counts)
            /\ \A i \in 1..Len(sections) : \A j \in 1..counts[i] :
                   /\ occurrences[OffsetIn(counts, i) + j].type
                          = parse_section_header(sections[i].header).type
                   /\ occurrences[OffsetIn(counts, i) + j].unique_idx
                          = occurrences[OffsetIn(counts, i) + 1].unique_idx
                   /\ tokens[OffsetIn(counts, i) + j] = tokens[OffsetIn(counts, i) + 1]
            /\ \A n \in 1..Len(occurrences) :
                   tokens[n] = DisplayEntry(type_stats, occurrences[n].type,
                                            occurrences[n].unique_idx).token
            /\ FlowValue = JoinStr(tokens, ", ")
            /\ FlowValue # InputFlow

\* a section of repeat count 2 between two others
C3_Witness ==
    /\ Structured
    /\ Len(sections) = 3
    /\ SectionCounts = <<1, 2, 1>>
    /\ Len(FlowTokens(FlowValue)) = 4
    /\ InputFlow = "X"

(***************************************************************************)
(* C4.  Exact match: when the normalized content of a collapsed section    *)
(* equals the key of an entry already in the list of its type, its         *)
(* occurrences reuse an entry with that key and no entry is created, for   *)
(* Chorus too, also when an earlier Chorus entry is a prefix of it.        *)
(***************************************************************************)
C4_ExactMatchReused ==
    [][DedupHappens =>
          ((\E i \in 1..Len(SecOld) : SecOld[i].key = SecKey) =>
              /\ SecNew = SecOld
              /\ \A k \in NewOccurrences :
                     SecOld[occurrences'[k].unique_idx].key = SecKey)]_vars

(***************************************************************************)
(* C5.  Chorus extension: a Chorus section that matches no key but starts  *)
(* with the lines of an entry u (the first such) and has a non-empty       *)
(* suffix resolves to the entry (suffix key, extensionOf u), reused when   *)
(* it exists and appended, holding only the suffix, when not; u stays as   *)
(* it is; two such chorus sections give two Flow tokens.  No other type    *)
(* uses the rule: content with a new key becomes a new full entry.         *)
(***************************************************************************)
NoExactMatch == \A i \in 1..Len(SecOld) : SecOld[i].key # SecKey
PrefixEntries ==
    {i \in 1..Len(SecOld) : starts_with_lines(SecLines, SecOld[i].lines_clean)}
FirstPrefix == CHOOSE i \in PrefixEntries : \A j \in PrefixEntries : i <= j
SuffixLines == SubSeq(SecLines, Len(SecOld[FirstPrefix].lines_clean) + 1, Len(SecLines))
SuffixKey == StripText(Join(SuffixLines))
ExtensionCase ==
    /\ SecType = "Chorus"
    /\ NoExactMatch
    /\ PrefixEntries # {}
    /\ SuffixKey # EmptyText
SuffixEntries ==
    {j \in 1..Len(SecOld) :
        SecOld[j].key = SuffixKey /\ SecOld[j].extension_of = FirstPrefix}

\* the two sections of the run are choruses, the second the first plus a suffix
TwoChorusesSecondExtended ==
    /\ Len(sections) = 2
    /\ \A k \in 1..2 : parse_section_header(sections[k].header).type = "Chorus"
    /\ SectionCounts = <<1, 1>>
    /\ Len(sections[2].lines) > Len(sections[1].lines)
    /\ starts_with_lines(Trimmed(sections[2].lines), Trimmed(sections[1].lines))
    /\ StripText(Join(SubSeq(Trimmed(sections[2].lines),
                             Len(sections[1].lines) + 1,
                             Len(sections[2].lines)))) # EmptyText

C5_ChorusExtension ==
    [][/\ (DedupHappens /\ ExtensionCase) =>
            /\ IsPrefixOf(SecOld, SecNew)
            /\ \A k \in NewOccurrences :
                   /\ SecNew[occurrences'[k].unique_idx].key = SuffixKey
                   /\ SecNew[occurrences'[k].unique_idx].extension_of = FirstPrefix
            /\ SuffixEntries # {} => SecNew = SecOld
            /\ SuffixEntries = {} =>
                   /\ Len(SecNew) = Len(SecOld) + 1
                   /\ SecNew[Len(SecNew)].lines = SuffixLines
                   /\ \A k \in NewOccurrences :
                          occurrences'[k].unique_idx = Len(SecNew)
       /\ (DedupHappens /\ SecType # "Chorus" /\ NoExactMatch) =>
            /\ SecNew = Append(SecOld, SecNew[Len(SecNew)])
            /\ SecNew[Len(SecNew)].lines = SecLines
            /\ SecNew[Len(SecNew)].key = SecKey
            /\ SecNew[Len(SecNew)].extension_of = NoExtension
       /\ (pc = "sections" /\ pc' = "returned" /\ TwoChorusesSecondExtended) =>
            /\ Len(FlowTokens(meta'[MetaIndex("Flow")])) = 2
            /\ FlowTokens(meta'[MetaIndex("Flow")])[1]
                   # FlowTokens(meta'[MetaIndex("Flow")])[2]
      ]_vars

\* an extension entry of the first chorus, created by one section and reused by the next
C5_Witness ==
    /\ pc = "sections"
    /\ next_section = 4
    /\ "Chorus" \in Types
    /\ Len(UniqueOf("Chorus")) = 2
    /\ UniqueOf("Chorus")[2].extension_of = 1
    /\ UniqueOf("Chorus")[2].lines = <<"G">>
    /\ [k \in 1..Len(occurrences) |-> occurrences[k].unique_idx] = <<1, 2, 2>>

(***************************************************************************)
(* C6.  extract_repeated_block returns the first s lines and n/s for the   *)
(* smallest block size s, 1 <= s <= n/2, s dividing n, of which the lines  *)
(* are a repetition, and the lines themselves with 1 when there is none    *)
(* (n = 0 and n = 1 included).  The block repeated count times is the      *)
(* input, and the block itself collapses no further.                       *)
(***************************************************************************)
C6_SmallestRepeatedBlock ==
    pc = "collapsed" =>
        /\ Periods(block_in) # {} =>
               /\ block_out.block = SubSeq(block_in, 1, MinPeriod(block_in))
               /\ block_out.count = Len(block_in) \div MinPeriod(block_in)
        /\ Periods(block_in) = {} =>
               /\ block_out.block = block_in
               /\ block_out.count = 1
        /\ RepeatLines(block_out.block, block_out.count) = block_in
        /\ extract_repeated_block(block_out.block)
               = [block |-> block_out.block, count |-> 1]
        /\ block_in = <<"E", "E", "E", "E">> =>
               block_out = [block |-> <<"E">>, count |-> 4]
        /\ block_in = <<"E", "F">> =>
               block_out = [block |-> <<"E", "F">>, count |-> 1]

\* six lines that repeat with block sizes 2 (the smallest) and, as "E F E F E F", no 3
C6_Witness ==
    /\ pc = "collapsed"
    /\ block_in = <<"E", "F", "E", "F", "E", "F">>
    /\ block_out = [block |-> <<"E", "F">>, count |-> 3]

(***************************************************************************)
(* C7.  detect_key returns "" without chord tokens; otherwise it takes the *)
(* root with the highest occurrence count, the one met first among equals, *)
(* and returns "<root>m" when twice its minor count reaches its count,     *)
(* "<root>" when not.  Minor counts of other roots play no part.           *)
(***************************************************************************)
TokenIsMinor(t) ==
    Ch(t.qual, 1) = "m" /\ ~(Ch(t.qual, 2) = "a" /\ Ch(t.qual, 3) = "j")
Hits(tokens, root) == {i \in 1..Len(tokens) : tokens[i].root = root}
MinorHits(tokens, root) == {i \in Hits(tokens, root) : TokenIsMinor(tokens[i])}
FirstHit(tokens, root) ==
    CHOOSE i \in Hits(tokens, root) : \A j \in Hits(tokens, root) : i <= j
Roots(tokens) == {tokens[i].root : i \in 1..Len(tokens)}
Selected(tokens, root) ==
    \A other \in Roots(tokens) \ {root} :
        \/ Cardinality(Hits(tokens, other)) < Cardinality(Hits(tokens, root))
        \/ /\ Cardinality(Hits(tokens, other)) = Cardinality(Hits(tokens, root))
           /\ FirstHit(tokens, root) < FirstHit(tokens, other)

C7_KeyOfMostFrequentRoot ==
    pc = "detected" =>
        \E tokens \in {finditer(key_body)} :
            /\ tokens = <<>> => key_out = ""
            /\ \A root \in Roots(tokens) :
                   Selected(tokens, root) =>
                       key_out = IF 2 * Cardinality(MinorHits(tokens, root))
                                        >= Cardinality(Hits(tokens, root))
                                 THEN root \o "m" ELSE root
            /\ tokens # <<>> => \E root \in Roots(tokens) : Selected(tokens, root)
            /\ key_body = <<"Am G Am G">> => key_out = "Am"
            /\ key_body = <<"G Cmaj7 Am">> => key_out = "G"

\* a tie between G, met first, and A, all of whose chords are minor
C7_Witness ==
    /\ pc = "detected"
    /\ key_body = <<"G Am G Am">>
    /\ key_out = "G"

(***************************************************************************)
(* C8.  With at least one section header the body is the non-empty         *)
(* preamble, then one block per unique content in first-seen order: the    *)
(* line "<DisplayName>:", a blank line when the first content line is not  *)
(* blank, the content lines; blocks are one blank line apart, trailing     *)
(* whitespace is trimmed and the body ends with one newline.               *)
(***************************************************************************)
ClaimedBlock(unique_id) ==
    LET e == DisplayEntry(type_stats, unique_id[1], unique_id[2])
        content == RStripText(Join(e.lines))
    IN  <<e.display_name \o ":">>
        \o (IF e.lines # <<>> /\ strip(e.lines[1]) # "" THEN <<"">> ELSE <<>>)
        \o (IF content # EmptyText THEN content ELSE <<>>)

ClaimedBody ==
    LET preamble == RStripText(Join(leading_lines))
        blocks == (IF preamble # EmptyText THEN <<preamble>> ELSE <<>>)
                  \o [k \in 1..Len(unique_order) |-> ClaimedBlock(unique_order[k])]
    IN  RStripText(JoinBlocks(blocks)) \o <<"">>

C8_BlockRendering == Structured => body = ClaimedBody

(***************************************************************************)
(* C9.  The extension relation is one level deep: no entry has extensionOf *)
(* pointing at an entry that has an extensionOf itself, and every          *)
(* extensionOf names an earlier entry of the same type, which is Chorus.   *)
(***************************************************************************)
C9_ExtensionOneLevel ==
    \A T \in Types : \A i \in 1..Len(UniqueOf(T)) :
        UniqueOf(T)[i].extension_of # NoExtension =>
            /\ T = "Chorus"
            /\ UniqueOf(T)[i].extension_of < i
            /\ UniqueOf(T)[UniqueOf(T)[i].extension_of].extension_of = NoExtension

(***************************************************************************)
(* C10.  Registry, body and Flow agree: the lists of unique contents only  *)
(* grow by appends; no two entries of a type share key and extensionOf;    *)
(* every entry is once in the body order, in creation order, and has an    *)
(* occurrence; so the entries named by the Flow are the blocks of the      *)
(* body, and the count of a type is the number of its occurrences.         *)
(***************************************************************************)
RegistryGrows ==
    /\ \A T \in Types :
           /\ T \in DOMAIN type_stats'
           /\ IsPrefixOf(UniqueOf(T), type_stats'[T].unique)
    /\ IsPrefixOf(unique_order, unique_order')
    /\ IsPrefixOf(occurrences, occurrences')

RegistryConsistent ==
    /\ \A T \in Types : \A i, j \in 1..Len(UniqueOf(T)) :
           (UniqueOf(T)[i].key = UniqueOf(T)[j].key
               /\ UniqueOf(T)[i].extension_of = UniqueOf(T)[j].extension_of) => i = j
    /\ RangeOf(unique_order) = Entries
    /\ Len(unique_order) = Cardinality(Entries)
    /\ \A a, b \in 1..Len(unique_order) :
           (a < b /\ unique_order[a][1] = unique_order[b][1])
               => unique_order[a][2] < unique_order[b][2]
    /\ {<<occurrences[k].type, occurrences[k].unique_idx>> : k \in 1..Len(occurrences)}
           = Entries
    /\ \A T \in Types : type_stats[T].count = Cardinality(OccurrencesOf(T))
    /\ Structured =>
           /\ Len(HeaderLinesOf(body)) = Len(unique_order)
           /\ Len(FlowTokens(FlowValue)) = Len(occurrences)

C10_RegistryBodyFlowAgree == [][RegistryGrows /\ RegistryConsistent']_vars

\* two unique contents of one type, the first used by two sections
C10_Witness ==
    /\ Structured
    /\ Len(unique_order) = 2
    /\ Len(occurrences) = 3
    /\ occurrences[1].unique_idx = occurrences[3].unique_idx
    /\ occurrences[1].type = occurrences[3].type
    /\ Len(HeaderLinesOf(body)) = 2

====
